---- MODULE Spec2Model ----
(***************************************************************************)
(* Playback of one axis of napari's dims model: the per-axis controller    *)
(* QtDimSliderWidget (stored fps, loop_mode, frame_range and _play) and    *)
(* the AnimationWorker it starts (set_fps, set_frame_range, set_loop_mode, *)
(* work, advance, finish, _on_axis_changed), napari/_qt/qt_dims_slider.py. *)
(*                                                                         *)
(* The worker runs its timer on its own thread; what it emits towards the  *)
(* main thread (frame_requested, finished) is in flight until the main     *)
(* thread handles it.  Settings signals of the slider and the axis event   *)
(* of dims call the worker's slots within the step that emits them.        *)
(***************************************************************************)
EXTENDS Integers, Sequences, FiniteSets, TLC

\* ---------------------------------------------------------------- bounds
\* dims.range[axis] = (start, start + n * step, step), 2 <= n <= MaxIndex
MaxIndex == 3
MaxRangeStep == 3
MaxStart == 1
\* advance() is not taken once |current| exceeds this (current can diverge)
MaxPos == 12
\* frame_requested signals in flight to the main thread
MaxQueue == 1
\* calls of the slider's API and slider moves in one behaviour
MaxOps == 3
\* ticks counted after the worker called finish()
MaxTrailing == 2

\* ---------------------------------------------------------------- values
Abs(x) == IF x < 0 THEN -x ELSE x

Max(a, b) == IF a > b THEN a ELSE b

Min(a, b) == IF a < b THEN a ELSE b

LoopModes == {"once", "loop", "back_and_forth"}

Ranges ==
    { <<st, st + n * rs, rs>> :
        st \in 0..MaxStart, n \in 2..MaxIndex, rs \in 1..MaxRangeStep }

\* the ranges of the axis under the full specification
SpecRanges == { r \in Ranges : r[3] <= 2 /\ r[2] - r[1] = MaxIndex * r[3] }

\* the largest position of any axis
MaxPoint == MaxStart + MaxIndex * MaxRangeStep

\* the positions of an axis: range(start, stop, step)
PointValues(dr) == { p \in dr[1]..(dr[2] - 1) : (p - dr[1]) % dr[3] = 0 }

\* A frame_range value.  kind "None" is Python's None, "NonePair" the tuple
\* (None, None) the slider's setter emits for None, "pair" a tuple (lo, hi).
NoRange == [kind |-> "None", lo |-> 0, hi |-> 0]

NonePair == [kind |-> "NonePair", lo |-> 0, hi |-> 0]

Pair(lo, hi) == [kind |-> "pair", lo |-> lo, hi |-> hi]

\* ------------------------------------------------- AnimationWorker, pure
\* a bug FrameRangeError could have: the last frame's test is > for >=
FrameRangeErrorOffByOne(frame_range, dimsrange) ==
    IF frame_range.kind = "None" THEN "none"
    ELSE IF frame_range.kind = "NonePair" THEN "TypeError"
    ELSE IF frame_range.lo >= frame_range.hi THEN "ValueError"
    ELSE IF frame_range.lo < dimsrange[1] THEN "IndexError"
    ELSE IF frame_range.hi * dimsrange[3] > dimsrange[2] THEN "IndexError"
    ELSE "none"

\* The exception set_frame_range raises for frame_range, "none" when it
\* raises nothing.  (None, None) fails on the comparison None >= None.
FrameRangeError(frame_range, dimsrange) ==
    IF frame_range.kind = "None" THEN "none"
    ELSE IF frame_range.kind = "NonePair" THEN "TypeError"
    ELSE IF frame_range.lo >= frame_range.hi THEN "ValueError"
    ELSE IF frame_range.lo < dimsrange[1] THEN "IndexError"
    ELSE IF frame_range.hi * dimsrange[3] >= dimsrange[2] THEN "IndexError"
    ELSE "none"

\* set_frame_range: the worker after the call, and the exception raised.
\* dimsrange is assigned before the checks; nothing else is on an error.
set_frame_range(w, frame_range, dimsrange) ==
    LET e  == FrameRangeError(frame_range, dimsrange)
        w1 == [w EXCEPT !.dimsrange = dimsrange]
    IN  IF e # "none" THEN [w |-> w1, err |-> e]
        ELSE [w |-> [w1 EXCEPT
                       !.frame_range = frame_range,
                       !.min_point = IF frame_range.kind = "None" THEN 0
                                     ELSE frame_range.lo,
                       !.max_point = (IF frame_range.kind = "None"
                                      THEN dimsrange[2] - dimsrange[3]
                                      ELSE frame_range.hi) + 1],
              err |-> "none"]

\* a bug set_fps could have: the direction of a new fps is not taken
set_fps_keeps_step(w, fps) ==
    IF fps = 0 THEN [w |-> w, finished |-> TRUE]
    ELSE [w |-> [w EXCEPT !.has_step = TRUE,
                          !.interval = 1000 \div Abs(fps)],
          finished |-> FALSE]

\* set_fps: fps 0 only calls finish(); otherwise step and interval are set.
set_fps(w, fps) ==
    IF fps = 0 THEN [w |-> w, finished |-> TRUE]
    ELSE [w |-> [w EXCEPT !.has_step = TRUE,
                          !.step = IF fps > 0 THEN 1 ELSE -1,
                          !.interval = 1000 \div Abs(fps)],
          finished |-> FALSE]

\* a bug set_loop_mode could have: the new mode is dropped
set_loop_mode_dropped(w, mode) == w

\* set_loop_mode
set_loop_mode(w, mode) == [w EXCEPT !.loop_mode = mode]

\* The position advance() first computes: current += step * dimsrange[2]
Tentative(w) == w.current + w.step * w.dimsrange[3]

\* advance() on a tentative position c below min_point: BACK_AND_FORTH
\* reverses and steps off min_point, LOOP wraps to the far end, ONCE ends.
\* emit: a frame is requested and a tick scheduled; otherwise finish() ran.
BelowMin(w, c) ==
    IF w.loop_mode = "back_and_forth" THEN
        [w |-> [w EXCEPT !.step = -w.step,
                         !.current = w.min_point + (-w.step) * w.dimsrange[3]],
         emit |-> TRUE]
    ELSE IF w.loop_mode = "loop" THEN
        [w |-> [w EXCEPT !.current = w.max_point + c - w.min_point],
         emit |-> TRUE]
    ELSE [w |-> [w EXCEPT !.current = c], emit |-> FALSE]

\* a bug AboveMax could have: ONCE wraps like LOOP instead of finishing
AboveMaxOnceWraps(w, c) ==
    IF w.loop_mode = "back_and_forth" THEN
        [w |-> [w EXCEPT !.step = -w.step,
                         !.current =
                             w.max_point + 2 * (-w.step) * w.dimsrange[3]],
         emit |-> TRUE]
    ELSE [w |-> [w EXCEPT !.current = w.min_point + c - w.max_point],
          emit |-> TRUE]

\* advance() on a tentative position c at or above max_point
AboveMax(w, c) ==
    IF w.loop_mode = "back_and_forth" THEN
        [w |-> [w EXCEPT !.step = -w.step,
                         !.current =
                             w.max_point + 2 * (-w.step) * w.dimsrange[3]],
         emit |-> TRUE]
    ELSE IF w.loop_mode = "loop" THEN
        [w |-> [w EXCEPT !.current = w.min_point + c - w.max_point],
         emit |-> TRUE]
    ELSE [w |-> [w EXCEPT !.current = c], emit |-> FALSE]

\* advance(): the worker after the call, and whether it requested a frame
\* (its new current) and scheduled the next tick; timer is the interval
\* the singleShot was given
advance(w) ==
    LET r == IF Tentative(w) < w.min_point THEN BelowMin(w, Tentative(w))
             ELSE IF Tentative(w) >= w.max_point
             THEN AboveMax(w, Tentative(w))
             ELSE [w |-> [w EXCEPT !.current = Tentative(w)], emit |-> TRUE]
    IN  IF r.emit THEN [r EXCEPT !.w.timer = w.interval] ELSE r

\* a bug LookAhead could have: the jump goes to the end the worker is at
LookAheadSameEnd(w) ==
    IF w.step > 0 /\ w.current >= w.max_point - 1 THEN <<w.max_point>>
    ELSE IF w.step < 0 /\ w.current <= w.min_point + 1 THEN <<w.min_point>>
    ELSE <<>>

\* The frame work() requests in ONCE mode before the first tick: <<p>>, or
\* <<>> when it requests none.
LookAhead(w) ==
    IF w.step > 0 /\ w.current >= w.max_point - 1 THEN <<w.min_point>>
    ELSE IF w.step < 0 /\ w.current <= w.min_point + 1 THEN <<w.max_point>>
    ELSE <<>>

\* a bug _on_axis_changed could have: the event's value is not taken
on_axis_changed_ignored(w, a, value) == w

\* _on_axis_changed: an axis event with a value, for the worker's own axis
on_axis_changed(w, a, value) ==
    IF a = w.axis THEN [w EXCEPT !.current = value] ELSE w

\* ------------------------------------------------------------------ state
VARIABLES
    fps,        \* QtDimSliderWidget._fps
    loop_mode,  \* QtDimSliderWidget._loop_mode
    stored,     \* QtDimSliderWidget._minframe, _maxframe
    range,      \* dims.range[axis]
    point,      \* dims.point[axis]
    status,     \* the worker and its thread: "none", "started", "running", "stopped"
    worker,     \* the AnimationWorker's attributes
    timers,     \* pending timer.singleShot(interval, advance) calls
    requested,  \* frame_requested signals in flight to qt_dims._set_frame
    finished,   \* finished signals in flight to qt_dims.stop
    live,       \* worker threads of the axis that were started and not stopped
    last,       \* observer: the last step, what it raised, what it emitted
    ops,        \* observer: calls made by the user, up to MaxOps
    hist,       \* observer: the positions advance() emitted, latest last
    trailing,   \* observer: runs of advance() since the worker's finish()
    other       \* _fps, _loop_mode, _minframe and _maxframe of the other slider

vars ==
    <<fps, loop_mode, stored, range, point, status, worker, timers,
      requested, finished, live, last, ops, hist, trailing, other>>

\* the axis of the slider widget: self.axis
axis == 0

Axes == {0, 1}

FpsValues == {-10, 0, 10}

\* frame_range arguments: None and the tuples over 0..MaxFrame
MaxFrame == 2

\* finished signals in flight
MaxFinished == 1

\* positions remembered by hist: more than the longest frame window
HistLen == MaxStart + MaxIndex * MaxRangeStep + 2

FrameArgs == {NoRange} \cup { Pair(lo, hi) : lo \in 0..1, hi \in 0..MaxFrame }

\* frame_range arguments of play() that are not None
PlayRanges == FrameArgs \ {NoRange}

\* an optional argument: <<>> is None, <<x>> the value x
Opt(S) == {<<>>} \cup { <<x>> : x \in S }

\* dims.point[a] can be set to: the axis's positions (the other axis has two)
Positions(a) == IF a = axis THEN PointValues(range) ELSE {0, 1}

\* a worker that was never constructed
NoWorker ==
    [axis |-> axis, loop_mode |-> "loop", has_step |-> FALSE, step |-> 1,
     interval |-> 0, frame_range |-> NoRange, min_point |-> 0,
     max_point |-> 0, dimsrange |-> range, current |-> 0, timer |-> 0]

\* the worker's slots are connected and its thread lives
Subscribed == status \in {"started", "running"}

\* what last holds: the step taken, the exception it raised, whether it
\* emitted play_started; prev: the loop_mode a loop_mode call replaced, the
\* status a play call found
Op(name, e) == [op |-> name, err |-> e, started |-> FALSE, prev |-> ""]

\* a call made by the user is counted, and none is made beyond MaxOps
Counted == ops < MaxOps /\ ops' = ops + 1

\* hist with one more emitted position, the oldest dropped beyond HistLen
Remember(h, p) ==
    IF Len(h) < HistLen THEN Append(h, p) ELSE Append(Tail(h), p)

\* ------------------------------------------------- QtDimSliderWidget
\* the frame_range property: None unless any of the two stored is truthy
frame_range(st) ==
    IF st.kind = "pair" /\ (st.lo # 0 \/ st.hi # 0) THEN st ELSE NoRange

\* what the frame_range setter stores and emits for value
Stored(value) == IF value.kind = "None" THEN NonePair ELSE value

\* AnimationWorker.__init__ on the slider: the worker, and the exception
\* set_frame_range raised (then no worker is returned to _play)
NewWorker(f, mode, st, dr, pt) ==
    LET w0 == [NoWorker EXCEPT !.loop_mode = mode, !.dimsrange = dr]
        w1 == set_fps(w0, f).w
        r  == set_frame_range(w1, frame_range(st), dr)
        c  == Min(Max(pt, r.w.min_point), r.w.max_point)
    IN  [w |-> [r.w EXCEPT !.current = c], err |-> r.err]

\* qt_dims.stop: the thread is quit and waited for, the worker is deleted
\* with its connections, its timers and what it had in flight
Stopped ==
    /\ status' = IF Subscribed THEN "stopped" ELSE status
    /\ timers' = 0
    /\ requested' = <<>>
    /\ finished' = 0
    /\ live' = 0
    /\ trailing' = 0

\* the fps setter: stores the value and emits fps_changed -> set_fps
SetFps(value) ==
    /\ Counted
    /\ other' = other
    /\ fps' = value
    /\ IF Subscribed
       THEN /\ value = 0 => finished < MaxFinished
            /\ worker' = set_fps(worker, value).w
            /\ finished' = IF set_fps(worker, value).finished
                           THEN finished + 1 ELSE finished
       ELSE UNCHANGED <<worker, finished>>
    /\ last' = Op("fps", "none")
    /\ UNCHANGED <<loop_mode, stored, range, point, status, timers,
                   requested, live, hist,
                   trailing>>

\* the loop_mode setter: stores the value and emits mode_changed ->
\* set_loop_mode
SetLoopMode(value) ==
    /\ Counted
    /\ other' = other
    /\ loop_mode' = value
    /\ worker' = IF Subscribed THEN set_loop_mode(worker, value) ELSE worker
    /\ last' = [Op("loop_mode", "none") EXCEPT !.prev = loop_mode]
    /\ UNCHANGED <<fps, stored, range, point, status, timers, requested,
                   finished, live, hist, trailing>>

\* the frame_range setter: stores the value and emits range_changed ->
\* set_frame_range, which may raise
SetFrameRange(value) ==
    /\ Counted
    /\ other' = other
    /\ stored' = Stored(value)
    /\ IF Subscribed
       THEN /\ worker' = set_frame_range(worker, Stored(value), range).w
            /\ last' = Op("frame_range",
                          set_frame_range(worker, Stored(value), range).err)
       ELSE /\ worker' = worker
            /\ last' = Op("frame_range", "none")
    /\ UNCHANGED <<fps, loop_mode, range, point, status, timers, requested,
                   finished, live, hist, trailing>>

\* a bug Merge could have: an argument that was given is not stored
MergeDropped(old, arg) == old

\* _update_play_settings on one setting: an argument that is not None
\* (<<x>>) is stored through the setter, None (<<>>) leaves what is stored
Merge(old, arg) == IF arg = <<>> THEN old ELSE arg[1]

\* a bug PriorLive could have: play does not stop the worker of the axis
PriorLiveKept == live

\* QtDims.play stops the worker the axis has before it calls _play: the
\* worker threads of the axis still alive when _play runs
PriorLive == 0

\* QtDims.play(axis, ...) and _play: the given settings are stored; unless
\* the fps argument is 0 a worker is constructed from the stored settings,
\* its thread is started and play_started is emitted.  Each argument is
\* <<>> (None) or <<value>>.
Play(f, mode, fr) ==
    LET fps1  == Merge(fps, f)
        mode1 == Merge(loop_mode, mode)
        st1   == Merge(stored, [i \in DOMAIN fr |-> Stored(fr[i])])
        new   == NewWorker(fps1, mode1, st1, range, point)
        prior == IF Subscribed THEN "stopped" ELSE status
    IN  /\ Counted
        /\ other' = other
        /\ fps' = fps1
        /\ loop_mode' = mode1
        /\ stored' = st1
        /\ timers' = 0
        /\ requested' = <<>>
        /\ finished' = 0
        /\ hist' = hist
        /\ trailing' = 0
        /\ IF f = <<0>>
           THEN /\ status' = prior
                /\ worker' = worker
                /\ live' = PriorLive
                /\ last' = [Op("play", "none") EXCEPT !.prev = status]
           ELSE IF new.err # "none"
           THEN /\ status' = prior
                /\ worker' = worker
                /\ live' = PriorLive
                /\ last' = [Op("play", new.err) EXCEPT !.prev = status]
           ELSE /\ status' = "started"
                /\ worker' = new.w
                /\ live' = PriorLive + 1
                /\ last' = [Op("play", "none") EXCEPT !.started = TRUE,
                                                      !.prev = status]
        /\ UNCHANGED <<range, point>>

\* play() on the slider of the other axis: _update_play_settings of that
\* slider.  The worker of that axis is left out; it shares nothing with
\* this one.
PlayOther(f, mode, fr) ==
    /\ ops < MaxOps
    /\ ops' = ops + 1
    /\ other' = [fps |-> Merge(other.fps, f),
                 loop_mode |-> Merge(other.loop_mode, mode),
                 stored |-> Merge(other.stored,
                                  [i \in DOMAIN fr |-> Stored(fr[i])])]
    /\ last' = Op("play_other", "none")
    /\ UNCHANGED <<fps, loop_mode, stored, range, point, status, worker,
                   timers, requested, finished, live, hist, trailing>>

\* QtDims.stop() called by the user
Stop ==
    /\ Counted
    /\ other' = other
    /\ Stopped
    /\ last' = Op("stop", "none")
    /\ UNCHANGED <<fps, loop_mode, stored, range, point, worker, hist>>

\* a finished signal of the worker reaches qt_dims.stop
Finished ==
    /\ finished > 0
    /\ ops' = ops
    /\ other' = other
    /\ Stopped
    /\ last' = Op("finished", "none")
    /\ UNCHANGED <<fps, loop_mode, stored, range, point, worker, hist>>

\* ------------------------------------------------- the worker's thread
\* hist, when it is kept (it is not empty), gets the position a tick
\* requested in this step
Track ==
    hist' = IF /\ hist # <<>>
               /\ Len(requested') > Len(requested)
               /\ requested'[Len(requested')].blocked
            THEN Remember(hist, requested'[Len(requested')].point)
            ELSE hist


\* a bug singleShot could have: the call is scheduled twice
singleShotTwice(n) == n + 2

\* timer.singleShot(interval, advance) with n calls pending: one more
singleShot(n) == n + 1

\* trailing counts the runs of advance() while a finished signal of the
\* worker is in flight
Trail == trailing' = IF finished > 0 THEN trailing + 1 ELSE trailing

\* work(), run when the thread starts.  Without a step (fps 0 at
\* construction) reading self.step raises AttributeError.  In ONCE mode the
\* worker on the last frame of its direction requests the opposite end, and
\* the first tick is scheduled; otherwise advance() is called at once.
Work ==
    /\ status = "started"
    /\ ops' = ops
    /\ other' = other
    /\ status' = "running"
    /\ IF ~worker.has_step
       THEN /\ last' = Op("work", "AttributeError")
            /\ UNCHANGED <<worker, timers, requested, finished, trailing>>
       ELSE IF worker.loop_mode = "once"
       THEN /\ last' = Op("work", "none")
            /\ timers' = singleShot(timers)
            /\ requested' =
                 IF LookAhead(worker) = <<>> THEN requested
                 ELSE Append(requested,
                             [point |-> LookAhead(worker)[1],
                              blocked |-> FALSE])
            /\ worker' = [worker EXCEPT !.timer = worker.interval]
            /\ UNCHANGED <<finished, trailing>>
       ELSE /\ last' = Op("work", "none")
            /\ Trail
            /\ worker' = advance(worker).w
            /\ IF advance(worker).emit
               THEN /\ requested' =
                         Append(requested,
                                [point |-> advance(worker).w.current,
                                 blocked |-> TRUE])
                    /\ timers' = singleShot(timers)
                    /\ UNCHANGED finished
               ELSE /\ finished' = finished + 1
                    /\ UNCHANGED <<requested, timers>>
    /\ Track
    /\ UNCHANGED <<fps, loop_mode, stored, range, point, live>>

\* a pending singleShot fires (one call less pending) and runs advance():
\* the frame is requested with _on_axis_changed blocked and the next tick
\* scheduled, or finish() called
Advance ==
    /\ status = "running"
    /\ ops' = ops
    /\ other' = other
    /\ timers > 0
    /\ Abs(worker.current) <= MaxPos
    /\ trailing < MaxTrailing
    /\ Trail
    /\ advance(worker).emit => Len(requested) < MaxQueue
    /\ ~advance(worker).emit => finished < MaxFinished
    /\ worker' = advance(worker).w
    /\ IF advance(worker).emit
       THEN /\ requested' =
                 Append(requested,
                        [point |-> advance(worker).w.current,
                         blocked |-> TRUE])
            /\ timers' = singleShot(timers - 1)
            /\ UNCHANGED finished
       ELSE /\ finished' = finished + 1
            /\ timers' = timers - 1
            /\ UNCHANGED requested
    /\ last' = Op("advance", "none")
    /\ Track
    /\ UNCHANGED <<fps, loop_mode, stored, range, point, status, live>>

\* dims.set_point(a, value) and the axis event it emits: every connected
\* _on_axis_changed runs, but for a blocked one
set_point(a, value, blocked) ==
    /\ point' = IF a = axis THEN value ELSE point
    /\ worker' = IF Subscribed /\ ~blocked
                 THEN on_axis_changed(worker, a, value) ELSE worker

\* Whether the blocker of advance() is held when the main thread emits an
\* axis event.  The worker's thread holds it from before frame_requested is
\* emitted until the with block is left, and the signal is handled on the
\* main thread: with a frame of a tick in flight (q) the worker may not
\* have left the block yet, or may have; otherwise it is not held.
Held(q) ==
    IF q # <<>> /\ q[1].blocked THEN BOOLEAN ELSE {FALSE}

\* qt_dims._set_frame: a requested frame reaches the main thread
SetFrame ==
    /\ requested # <<>>
    /\ ops' = ops
    /\ other' = other
    /\ \E b \in Held(requested) :
          /\ set_point(axis, Head(requested).point, b)
          /\ last' = Op(IF b THEN "set_frame" ELSE "echo", "none")
    /\ requested' = Tail(requested)
    /\ UNCHANGED <<fps, loop_mode, stored, range, status, timers, finished,
                   live, hist, trailing>>

\* the slider is moved (or the slice typed): dims.set_point(axis, value)
SetPoint(a, value) ==
    /\ value \in Positions(a)
    /\ Counted
    /\ other' = other
    /\ \E b \in Held(requested) :
          /\ set_point(a, value, b)
          /\ last' = Op(IF a # axis THEN "set_other"
                        ELSE IF b THEN "set_blocked" ELSE "set_point",
                        "none")
    /\ UNCHANGED <<fps, loop_mode, stored, range, status, timers, requested,
                   finished, live, hist, trailing>>

\* ------------------------------------------------------- specification
Init ==
    /\ fps = 10
    /\ loop_mode = "loop"
    /\ stored = NonePair
    /\ range \in SpecRanges
    /\ point = range[1]
    /\ status = "none"
    /\ worker = NoWorker
    /\ timers = 0
    /\ requested = <<>>
    /\ finished = 0
    /\ live = 0
    /\ last = Op("init", "none")
    /\ hist = <<>>
    /\ ops = 0
    /\ trailing = 0
    /\ other = [fps |-> 10, loop_mode |-> "loop", stored |-> NonePair]

Next ==
    \/ \E v \in FpsValues : SetFps(v)
    \/ \E m \in LoopModes : SetLoopMode(m)
    \/ \E r \in FrameArgs : SetFrameRange(r)
    \/ \E f \in Opt(FpsValues), m \in Opt(LoopModes), r \in Opt(PlayRanges) :
          Play(f, m, r)
    \/ Stop
    \/ \E a \in Axes, v \in 0..MaxPoint : SetPoint(a, v)
    \/ Finished
    \/ Work
    \/ Advance
    \/ SetFrame

Spec == Init /\ [][Next]_vars

\* ------------------------------------------- undisturbed playback
\* Playback with nobody touching the settings or the slider: the slider
\* holds any valid settings over any range when play() is called, and only
\* the worker's thread and the delivery of its signals take steps.  hist
\* records the start position and every position advance() emits.
AllFrameArgs ==
    {NoRange} \cup { Pair(lo, hi) : lo, hi \in 0..(MaxStart + MaxIndex) }

InitOver(R, h) ==
    /\ range \in R
    /\ fps \in FpsValues \ {0}
    /\ loop_mode \in LoopModes
    /\ stored \in { Stored(r) : r \in
                      { a \in AllFrameArgs :
                          FrameRangeError(frame_range(Stored(a)), range)
                              = "none" } }
    /\ point \in PointValues(range)
    /\ status = "started"
    /\ worker = NewWorker(fps, loop_mode, stored, range, point).w
    /\ timers = 0
    /\ requested = <<>>
    /\ finished = 0
    /\ live = 1
    /\ last = [Op("play", "none") EXCEPT !.started = TRUE, !.prev = "none"]
    /\ hist = IF h THEN <<worker.current>> ELSE <<>>
    /\ ops = 0
    /\ trailing = 0
    /\ other = [fps |-> 10, loop_mode |-> "loop", stored |-> NonePair]

InitAdvance == InitOver(Ranges, TRUE)

NextAdvance == Work \/ Advance \/ SetFrame \/ Finished

SpecAdvance == InitAdvance /\ [][NextAdvance]_vars

\* ------------------------------------------------------------ claims
Inside(w, p) == w.min_point <= p /\ p < w.max_point

\* C1 (as stated): in LOOP mode, from a position inside
\* [min_point, max_point), every position advance() produces stays inside
\* [min_point, max_point), whatever the range step.
C1_LoopStaysInside ==
    (worker.loop_mode = "loop" /\ Inside(worker, hist[1]))
        => \A i \in 1..Len(hist) : Inside(worker, hist[i])

\* the window and one tick's stride of the worker
Window(w) == w.max_point - w.min_point

Stride(w) == Abs(w.step * w.dimsrange[3])

\* C2 (as stated): in LOOP mode the positions advance() produces are
\* periodic with a period of (max_point - min_point) / |step * rangeStep|
\* ticks: once advance() has produced a position, that period is a number
\* of ticks P, and every position is produced again P ticks later.
C2_LoopPeriodic ==
    (worker.loop_mode = "loop" /\ Inside(worker, hist[1]) /\ Len(hist) > 1)
        => \E P \in 1..HistLen :
              /\ P * Stride(worker) = Window(worker)
              /\ \A i \in 1..(Len(hist) - P) : hist[i + P] = hist[i]

\* a step in which advance() ran: a timer firing, or work() outside ONCE
Ticks ==
    \/ Advance
    \/ Work /\ worker.has_step /\ worker.loop_mode # "once"

Crosses(w) ==
    Tentative(w) < w.min_point \/ Tentative(w) >= w.max_point

\* C3 (as stated): in BACK_AND_FORTH mode every tick from a position inside
\* [min_point, max_point) yields a position inside it, and the tick flips
\* the direction exactly when the tentative position crosses a boundary.
C3_Reflection ==
    [][(Ticks /\ worker.loop_mode = "back_and_forth"
              /\ Inside(worker, worker.current))
          => /\ Inside(worker', worker'.current)
             /\ (worker'.step # worker.step) <=> Crosses(worker)]_vars

\* C4: in ONCE mode the tick taken at max_point - 1 when advancing calls
\* finish(): it requests no frame and schedules no tick, and a running
\* worker with no tick scheduled never ticks and never gets one scheduled.
C4_OnceTerminates ==
    [][/\ (Advance /\ worker.loop_mode = "once" /\ worker.step > 0
                   /\ worker.current = worker.max_point - 1)
            => /\ requested' = requested
               /\ timers' = 0
               /\ finished' = finished + 1
       /\ (status = "running" /\ timers = 0)
            => (timers' = 0 /\ ~Advance)]_vars

\* C4 witness: a ONCE worker that ran past max_point and called finish()
C4_OnceExhausted ==
    /\ status = "running"
    /\ worker.has_step
    /\ worker.loop_mode = "once"
    /\ worker.step > 0
    /\ worker.current >= worker.max_point
    /\ timers = 0
    /\ finished = 1
    /\ requested = <<>>

\* ------------------------------------------- frame ranges on a worker
\* Any frame_range is set on the slider of a worker constructed over any
\* range with any valid settings.
NextRange == \E r \in AllFrameArgs : SetFrameRange(r)

SpecRange == InitAdvance /\ [][NextRange]_vars

\* the frame_range setter was the last call and reached a live worker
\* with a tuple (lo, hi), held by stored
RangeWasSet ==
    last.op = "frame_range" /\ Subscribed /\ stored.kind = "pair"

Rejected ==
    \/ stored.lo >= stored.hi
    \/ stored.lo < range[1]
    \/ stored.hi * range[3] >= range[2]

C6_FpsZeroStops ==
    [][/\ (last.op = "fps" /\ fps = 0) => ~Advance
       /\ (SetFps(0) /\ ~Subscribed)
            => UNCHANGED <<status, worker, timers, requested, finished>>]_vars

\* the slider was moved to the position in point while the worker runs
SliderMoved == last.op = "set_point" /\ status = "running"

C8_LoopToOnce ==
    [][/\ (SetLoopMode("once") /\ Subscribed /\ worker.loop_mode = "loop")
            => worker' = [worker EXCEPT !.loop_mode = "once"]
       /\ (Advance /\ loop_mode = "once" /\ Crosses(worker))
            => /\ requested' = requested
               /\ timers' = timers - 1
               /\ finished' = finished + 1]_vars

\* C8 witness: a worker that was playing in LOOP mode got ONCE, and its
\* next tick crosses a boundary
C8_SwitchedBeforeBoundary ==
    /\ last.op = "loop_mode"
    /\ last.prev = "loop"
    /\ loop_mode = "once"
    /\ status = "running"
    /\ timers > 0
    /\ Crosses(worker)

\* C9 (as stated): a play() call that leaves the stored fps at 0 starts
\* nothing: no worker, no play_started, no tick, whether 0 was passed or
\* fps was omitted with 0 stored.
C9_PlayAtFpsZero ==
    (last.op = "play" /\ fps = 0)
        => /\ ~last.started
           /\ ~Subscribed
           /\ timers = 0

C11_EchoSuppressed ==
    [][(SetFrame /\ Head(requested).blocked)
          => (last'.op = "set_frame" /\ worker' = worker)]_vars

\* C12 (as stated): after the worker was stopped or called finish() (fps
\* set to 0, ONCE exhausted) at most one more run of advance() happens.
C12_OneTrailingTick == trailing <= 1 /\ (~Subscribed => timers = 0)

\* ------------------------------------------------- claims on work()
\* the worker is on, or one before, the last position of its direction
AtEnd(w) ==
    \/ w.step > 0 /\ w.max_point - w.current <= 1
    \/ w.step < 0 /\ w.current - w.min_point <= 1

\* the end opposite to the worker's direction
OppositeEnd(w) == IF w.step > 0 THEN w.min_point ELSE w.max_point

\* C13: work() of a ONCE worker that is at the end of its direction requests
\* exactly one frame, the opposite end (min_point advancing, max_point
\* reversing), outside the blocker; elsewhere it requests none; either way
\* it changes no attribute of the worker and schedules the first tick.
C13_OnceLookAhead ==
    [][(Work /\ worker.has_step /\ worker.loop_mode = "once")
          => /\ worker' = [worker EXCEPT !.timer = worker.interval]
             /\ timers' = timers + 1
             /\ finished' = finished
             /\ requested' =
                  IF AtEnd(worker)
                  THEN Append(requested, [point |-> OppositeEnd(worker),
                                          blocked |-> FALSE])
                  ELSE requested]_vars

\* C13 witness: a reversing ONCE worker started at its first positions and
\* requested max_point, with the first tick scheduled
C13_JumpedToMax ==
    /\ last.op = "work"
    /\ worker.loop_mode = "once"
    /\ worker.step < 0
    /\ AtEnd(worker)
    /\ requested = <<[point |-> worker.max_point, blocked |-> FALSE]>>
    /\ timers = 1

\* ------------------------------------------ the stored settings
\* play() on either slider, stop and playback.  The arguments of play()
\* are None or a value other than the one the sliders start with.
PlayFps == Opt({-10, 0})

PlayModes == Opt({"once"})

PlayFrames == Opt({Pair(0, 1)})

NextSettings ==
    \/ \E f \in PlayFps, m \in PlayModes, r \in PlayFrames : Play(f, m, r)
    \/ \E f \in PlayFps, m \in PlayModes, r \in PlayFrames :
          PlayOther(f, m, r)
    \/ Stop
    \/ Finished
    \/ Work
    \/ Advance
    \/ SetFrame

SpecSettings == Init /\ [][NextSettings]_vars

\* C14: play(fps, loop_mode, frame_range) stores exactly the arguments
\* that are not None and leaves the other settings as stored; stop and
\* playback leave the stored settings alone; play() of one axis changes
\* no setting of the other.
C14_PlayMergesSettings ==
    [][/\ \A f \in PlayFps, m \in PlayModes, r \in PlayFrames :
            /\ Play(f, m, r) =>
                 /\ fps' = IF f = <<>> THEN fps ELSE f[1]
                 /\ loop_mode' = IF m = <<>> THEN loop_mode ELSE m[1]
                 /\ stored' = IF r = <<>> THEN stored ELSE r[1]
                 /\ other' = other
            /\ PlayOther(f, m, r) =>
                 /\ other'.fps = IF f = <<>> THEN other.fps ELSE f[1]
                 /\ UNCHANGED <<fps, loop_mode, stored>>
       /\ (Stop \/ Finished \/ Work \/ Advance \/ SetFrame)
            => UNCHANGED <<fps, loop_mode, stored, other>>]_vars

\* C14 witness: a slider played again after its ONCE worker finished,
\* holding the fps and loop_mode given to an earlier play() and the
\* frame_range it started with, while the other slider got another fps
C14_KeptAcrossCycles ==
    /\ last.op = "play"
    /\ last.prev = "stopped"
    /\ fps = -10
    /\ loop_mode = "once"
    /\ stored = NonePair
    /\ other.fps = 0

\* ------------------------------------------- claims on frame ranges
\* the last call was play() or the frame_range setter, and the slider now
\* stores a tuple that validation rejects
InvalidRangeGiven ==
    /\ last.op \in {"play", "frame_range"}
    /\ stored.kind = "pair"
    /\ Rejected

\* C15 (as stated): a play() call or a frame_range change with an invalid
\* frame_range raises the validation error in the call, and play() then
\* starts nothing: no play_started, no live worker, no tick.
C15_InvalidRangeRaises ==
    InvalidRangeGiven =>
        /\ last.err \in {"ValueError", "IndexError"}
        /\ last.op = "play" =>
             (~last.started /\ ~Subscribed /\ timers = 0)

\* C16 (as stated): a worker constructed with no stored frame range, and a
\* live worker whose slider's frame_range is set to None, has min_point = 0
\* and max_point = floor(stop - step) + 1, and nothing was raised.
C16_AbsentRangeDefaults ==
    (/\ Subscribed
     /\ stored.kind = "NonePair"
     /\ \/ last.op = "play" /\ last.started
        \/ last.op = "frame_range")
        => /\ last.err = "none"
           /\ worker.min_point = 0
           /\ worker.max_point = range[2] - range[3] + 1

\* ------------------------------- frame ranges changed during playback
\* Ranges of step 1 with one position more than those of Ranges, over
\* which a frame_range is set on a worker that plays.
LongRanges == { <<st, st + MaxIndex + 1, 1>> : st \in 0..MaxStart }

InitReframe == InitOver(LongRanges, FALSE)

\* the first call made is one of the frame_range setter
Reframe == ops = 0 /\ \E r \in AllFrameArgs : SetFrameRange(r)

NextReframe ==
    \/ Reframe
    \/ Work
    \/ Advance
    \/ SetFrame
    \/ Finished

SpecReframe == InitReframe /\ [][NextReframe]_vars

\* the frame_range setter just gave the running worker a window that its
\* current is outside of
LeftOutside ==
    /\ last.op = "frame_range"
    /\ last.err = "none"
    /\ status = "running"
    /\ ~Inside(worker, worker.current)

\* C17 (as stated): a frame_range change on a live worker leaves current as
\* it is, and when current is then outside [min_point, max_point) the next
\* tick either ends a ONCE worker or requests a position inside
\* [min_point, max_point), however far outside current was.
C17_ReframeCorrected ==
    [][/\ (Subscribed /\ Reframe) => worker'.current = worker.current
       /\ (LeftOutside /\ Advance)
            => \/ /\ worker.loop_mode = "once"
                  /\ finished' = finished + 1
                  /\ requested' = requested
               \/ /\ Inside(worker', worker'.current)
                  /\ requested' =
                       Append(requested, [point |-> worker'.current,
                                          blocked |-> TRUE])]_vars

\* ------------------------------------------ fps changed during playback
\* fps values of two speeds in both directions, and 0
FpsChanges == {-20, -10, 0, 10, 20}

ChangeFps == \E v \in FpsChanges : SetFps(v)

InitFps == InitOver(SpecRanges, FALSE)

NextFps ==
    \/ ChangeFps
    \/ Work
    \/ Advance
    \/ SetFrame
    \/ Finished

SpecFps == InitFps /\ [][NextFps]_vars

Sign(x) == IF x > 0 THEN 1 ELSE -1

\* C18: a non-zero fps set on a running worker sets step to the sign of fps
\* and interval to 1000 / |fps| and changes nothing else of the worker,
\* its status, ticks or signals; the next tick moves by the new step and
\* gives the new interval to the singleShot it schedules.
C18_FpsChange ==
    [][/\ (ChangeFps /\ fps' # 0 /\ status = "running")
            => /\ worker' = [worker EXCEPT !.step = Sign(fps'),
                                           !.interval = 1000 \div Abs(fps')]
               /\ UNCHANGED <<status, timers, requested, finished>>
       /\ (last.op = "fps" /\ fps # 0 /\ status = "running" /\ Advance)
            => /\ Tentative(worker) = worker.current + Sign(fps) * range[3]
               /\ worker' = advance(worker).w
               /\ advance(worker).emit
                    => worker'.timer = 1000 \div Abs(fps)]_vars

\* C18 witness: a worker that played forward at 10 fps got fps -20 while
\* the tick it had scheduled at the old interval is pending
C18_FasterBackwards ==
    /\ last.op = "fps"
    /\ fps = -20
    /\ status = "running"
    /\ timers > 0
    /\ worker.step = -1
    /\ worker.interval = 50
    /\ worker.timer = 100
    /\ Tentative(worker) = worker.current - range[3]

\* ------------------------------------------------- claims on ticks
\* C19: a worker never has more than one tick pending: only work()
\* schedules a tick when none is pending, a tick schedules the next one
\* only together with the frame it requests, and no call of the slider and
\* no axis event schedules one.
C19_OneTickPending ==
    [][/\ timers' <= 1
       /\ timers' > timers => (Work /\ timers = 0)
       /\ (Advance /\ timers' = 1)
            => requested' = Append(requested, [point |-> worker'.current,
                                               blocked |-> TRUE])]_vars

\* C19 witness: a worker whose settings were changed while it played has
\* requested a frame in a tick and has the next tick pending
C19_Rescheduled ==
    /\ last.op = "advance"
    /\ timers = 1
    /\ requested # <<>>
    /\ ops = MaxOps
    /\ fps = -10
    /\ loop_mode = "back_and_forth"

\* the worker has called finish(), or its thread was stopped
Done == finished > 0 \/ status = "stopped"

\* C20 (as stated): once the worker has stopped it runs no tick and
\* requests no frame, and no later call of the slider or axis event changes
\* its attributes or makes it emit finished again; only play() replaces it.
C20_StoppedTerminal ==
    [][(Done /\ last'.op # "play")
          => /\ ~Advance
             /\ worker' = worker
             /\ Len(requested') <= Len(requested)
             /\ finished' <= finished]_vars

\* ------------------------------------------- claims on requested frames
\* C21 (as stated): with the worker's current starting inside
\* [min_point, max_point) and nobody else moving the position, every frame
\* in flight, requested by a tick or by the look-ahead of work() in either
\* direction, lies inside [min_point, max_point).
C21_RequestsInside ==
    Inside(worker, hist[1])
        => \A i \in 1..Len(requested) : Inside(worker, requested[i].point)

\* C22 (as stated): a frame_range change that the live worker's validation
\* rejects leaves the worker's frame_range, min_point, max_point and
\* current as they were, and leaves the slider's stored frame_range as it
\* was.
C22_RejectedChangesNothing ==
    [][(Subscribed /\ NextRange /\ last'.err # "none")
          => /\ worker'.frame_range = worker.frame_range
             /\ worker'.min_point = worker.min_point
             /\ worker'.max_point = worker.max_point
             /\ worker'.current = worker.current
             /\ stored' = stored]_vars

====
